---- MODULE Spec2Model ----
(***************************************************************************)
(* State machine of the admin console's socket provider                    *)
(* (src/src/admin/contexts/AdminSocket.jsx): the connection lifecycle      *)
(* driven by the authentication state, the event handlers that keep the    *)
(* local mirror of the server's collections, the command dispatchers and   *)
(* the alias query.                                                        *)
(*                                                                         *)
(* JavaScript strings are TLA+ strings, arrays are sequences, a Set is a   *)
(* set, an object used as a map is a function on the keys it holds, and a  *)
(* payload field that is missing is a key outside the payload's DOMAIN.    *)
(* The socket.io client object is modelled by what the provider can        *)
(* observe of it: its status, the notifications it delivers to the         *)
(* subscribed handlers, and what emit does with a packet.                  *)
(***************************************************************************)
EXTENDS Integers, Sequences, FiniteSets, TLC

VARIABLES
    page,             \* the document: "mounting", "live", or "leaving" once location.href was assigned
    isAuthenticated,  \* useAuth().isAuthenticated
    userRole,         \* useAuth().userRole
    currentUser,      \* useAuth().currentUser
    adminAuth,        \* localStorage item 'adminAuth' (parsed)
    socket,           \* useState: the handle the dispatchers use (NoSocket is null)
    isConnected,      \* useState: ConnectionState
    sessions,         \* useState: array of session records
    settings,         \* useState: the settings record
    bannedIPs,        \* useState: Set of addresses
    callers,          \* useState: array of caller records
    aliases,          \* useState: object sessionId -> alias
    cleanup,          \* the socket the last effect run's cleanup closes (NoSocket: it returned none)
    conns,            \* every socket.io client object created so far: status and sendBuffer
    wire,             \* packets written to the transport, in order
    returned          \* the last call of getAlias: its argument and what it returned

vars == <<page, isAuthenticated, userRole, currentUser, adminAuth, socket, isConnected,
          sessions, settings, bannedIPs, callers, aliases, cleanup, conns, wire, returned>>

mirror == <<sessions, settings, bannedIPs, callers, aliases>>
authState == <<isAuthenticated, userRole, currentUser>>

----------------------------------------------------------------------------
(* Bounds of the model.                                                    *)

MaxSockets == 2     \* socket objects created in one behaviour
MaxSessions == 2    \* length of the sessions array
MaxCallers == 1     \* length of the callers array
MaxEmits == 1       \* packets handed to emit in one behaviour
MaxAttempts == 2    \* failed reconnection attempts counted for one socket

(* Values the environment draws from.                                      *)

NoSocket == 0
SocketIds == 1..MaxSockets
Null == "<null>"                                 \* JavaScript null
NoCall == [arg |-> Null, value |-> Null]         \* getAlias was not called yet
UserRoles == {"admin", "caller"}
Users == {"root"}
SessionIds == {"abc12345", "abc123456789"}
Addrs == {"1.2.3.4", "5.6.7.8"}
CallerIds == {"c1", "c2"}
CallerNames == {"Ann", "Bob"}
Aliases == {"", "VIP"}
Pages == {"otp.html"}

SessionRecs == [id : SessionIds, ip : Addrs, assignedTo : CallerIds \cup {Null}]
CallerRecs == [id : CallerIds, name : CallerNames]

\* The subset of the values above that the specifications of the whole
\* provider draw from (the reducer's specification draws from all of them).
CoreSessionRecs == {r \in SessionRecs : r.id = "abc12345" /\ r.ip = "1.2.3.4" /\ r.assignedTo # "c2"}
CoreCallerRecs == {r \in CallerRecs : r.id = "c1" /\ r.name = "Ann"}
CoreSessionIds == {"abc12345"}
CoreAddrs == {"1.2.3.4"}
CoreCallerIds == {"c1"}
CoreAliases == {"VIP"}

----------------------------------------------------------------------------
(* The credential store and the socket.io client objects.                  *)

\* JSON.parse(localStorage.getItem('adminAuth') || '{}'): a field that is
\* missing reads as undefined, which the code only tests for falsiness: "".
NoItem == [token |-> "", role |-> "", username |-> ""]
\* The item is absent, or holds what a login stored.
AuthItems == {NoItem, [token |-> "tok", role |-> "caller", username |-> "ann"]}

\* A socket object that was not created yet.
NoConn == [status |-> "none", auth |-> NoItem, sendBuffer |-> <<>>, attempts |-> 0]

Created == {s \in SocketIds : conns[s].status # "none"}
\* Connections opened and not yet closed.
Active == {s \in SocketIds : conns[s].status \in {"opening", "connected", "reconnecting", "kicked"}}
\* Connections whose handlers can be called with a server event.
Live == {s \in SocketIds : conns[s].status = "connected"}
FreshIds == SocketIds \ Created

RECURSIVE Buffered(_, _)
Buffered(c, S) ==
    IF S = {} THEN 0
    ELSE LET s == CHOOSE x \in S : TRUE IN Len(c[s].sendBuffer) + Buffered(c, S \ {s})

\* Packets handed to emit so far: written, or waiting in a sendBuffer.
Emitted == Len(wire) + Buffered(conns, SocketIds)

----------------------------------------------------------------------------
(* useState initial values, lines 20-35.                                   *)

DefaultSettings ==
    [websiteEnabled |-> TRUE, redirectUrl |-> "https://google.com", vpnBlockEnabled |-> FALSE,
     antiBotEnabled |-> FALSE, defaultLandingPage |-> "geminiloading.html",
     captchaEnabled |-> FALSE, showAliases |-> FALSE, availablePages |-> <<>>]
ServerSettings == [DefaultSettings EXCEPT !.websiteEnabled = FALSE, !.showAliases = TRUE]
EmptyObject == [k \in {} |-> ""]                 \* {}
SettingsValues == {ServerSettings, DefaultSettings}

InitialMirror ==
    [sessions |-> <<>>, settings |-> DefaultSettings, bannedIPs |-> {}, callers |-> <<>>,
     aliases |-> EmptyObject]

Init ==
    /\ page = "mounting"
    /\ isAuthenticated \in BOOLEAN
    /\ userRole \in UserRoles
    /\ currentUser \in Users
    /\ adminAuth \in AuthItems
    /\ socket = NoSocket
    /\ isConnected = FALSE
    /\ sessions = InitialMirror.sessions
    /\ settings = InitialMirror.settings
    /\ bannedIPs = InitialMirror.bannedIPs
    /\ callers = InitialMirror.callers
    /\ aliases = InitialMirror.aliases
    /\ cleanup = NoSocket
    /\ conns = [s \in SocketIds |-> NoConn]
    /\ wire = <<>>
    /\ returned = NoCall

----------------------------------------------------------------------------
(* The effect of lines 39-213 and the transport's notifications.           *)

\* newSocket.on('connect'), lines 81-84: the value setIsConnected is given.
on_connect == TRUE

\* on_disconnect with the flag left set.
on_disconnect_stays == TRUE

\* newSocket.on('disconnect'), lines 86-89: the value setIsConnected is given.
on_disconnect == FALSE

\* Disconnect closing the object without its 'disconnect' handler running.
Disconnect_silent(c, s) ==
    IF c.conns[s].status \in {"none", "closed"} THEN c
    ELSE [conns |-> [c.conns EXCEPT ![s].status = "closed"], isConnected |-> c.isConnected]

\* socket.disconnect() on socket object s, where c holds conns and
\* isConnected: the object is closed and stays closed, and when it was
\* connected its 'disconnect' handler runs. Closing a closed object does
\* nothing.
Disconnect(c, s) ==
    IF c.conns[s].status \in {"none", "closed"} THEN c
    ELSE [conns |-> [c.conns EXCEPT ![s].status = "closed"],
          isConnected |-> IF c.conns[s].status = "connected" THEN on_disconnect
                          ELSE c.isConnected]

\* EffectCleanup with the effect returning no cleanup.
EffectCleanup_none(c, cl) == c

\* The cleanup the previous run of the effect returned, lines 210-212
\* (cl is NoSocket when that run returned none).
EffectCleanup(c, cl) == IF cl # NoSocket THEN Disconnect(c, cl) ELSE c

\* Lines 55-58: the bundle built from the stored item and the auth context.
AuthBundle(item, role, user) ==
    [token |-> item.token,
     role |-> IF item.role # "" THEN item.role ELSE IF role # "" THEN role ELSE "admin",
     username |-> IF item.username # "" THEN item.username ELSE IF user # "" THEN user ELSE "Admin"]

\* One run of the effect (preceded by the previous run's cleanup) with the
\* auth context's values a, r, u.
RunEffect(a, r, u) ==
    LET c1 == EffectCleanup([conns |-> conns, isConnected |-> isConnected], cleanup)
        authData == adminAuth
    IN  IF ~a
        THEN \* lines 45-53
             LET c2 == IF socket # NoSocket THEN Disconnect(c1, socket) ELSE c1
             IN  /\ isConnected' = FALSE
                 /\ conns' = c2.conns
                 /\ socket' = NoSocket
                 /\ cleanup' = NoSocket
        ELSE IF authData.token = ""
        THEN \* lines 60-63
             /\ isConnected' = c1.isConnected
             /\ conns' = c1.conns
             /\ socket' = socket
             /\ cleanup' = NoSocket
        ELSE \* lines 65-212
             /\ FreshIds # {}
             /\ LET newSocket == CHOOSE s \in FreshIds : \A t \in FreshIds : s <= t
                IN  /\ conns' = [c1.conns EXCEPT ![newSocket] =
                                    [status |-> "opening", auth |-> AuthBundle(authData, r, u),
                                     sendBuffer |-> <<>>, attempts |-> 0]]
                    /\ socket' = newSocket
                    /\ cleanup' = newSocket
             /\ isConnected' = c1.isConnected

\* The provider mounts: the effect runs for the first time.
Mount ==
    /\ page = "mounting"
    /\ page' = "live"
    /\ RunEffect(isAuthenticated, userRole, currentUser)
    /\ UNCHANGED <<authState, adminAuth, mirror, wire, returned>>

\* AuthChange with the effect also resetting the mirrored collections.
AuthChange_reset ==
    /\ page # "mounting"
    /\ \E a \in BOOLEAN, r \in UserRoles, u \in Users :
          /\ <<a, r, u>> # authState
          /\ isAuthenticated' = a
          /\ userRole' = r
          /\ currentUser' = u
          /\ RunEffect(a, r, u)
    /\ sessions' = InitialMirror.sessions
    /\ settings' = InitialMirror.settings
    /\ bannedIPs' = InitialMirror.bannedIPs
    /\ callers' = InitialMirror.callers
    /\ aliases' = InitialMirror.aliases
    /\ UNCHANGED <<page, adminAuth, wire, returned>>

\* The auth context changes one of the effect's dependencies (line 213).
AuthChange ==
    /\ page # "mounting"
    /\ \E a \in BOOLEAN, r \in UserRoles, u \in Users :
          /\ <<a, r, u>> # authState
          /\ isAuthenticated' = a
          /\ userRole' = r
          /\ currentUser' = u
          /\ RunEffect(a, r, u)
    /\ UNCHANGED <<page, adminAuth, mirror, wire, returned>>

\* The auth context (outside this file) writes or removes the stored item.
StoreWrite ==
    /\ \E item \in AuthItems : adminAuth # item /\ adminAuth' = item
    /\ UNCHANGED <<page, authState, socket, isConnected, mirror, cleanup, conns, wire, returned>>

\* The transport connects or reconnects socket s: the buffered packets are
\* written, the count of failed attempts is reset and the 'connect' handler
\* runs.
TransportConnect ==
    /\ \E s \in SocketIds :
          /\ conns[s].status \in {"opening", "reconnecting"}
          /\ conns' = [conns EXCEPT ![s].status = "connected", ![s].sendBuffer = <<>>,
                                    ![s].attempts = 0]
          /\ wire' = wire \o conns[s].sendBuffer
    /\ isConnected' = on_connect
    /\ UNCHANGED <<page, authState, adminAuth, socket, mirror, cleanup, returned>>

\* The transport of socket s drops; socket.io keeps the object and retries
\* (reconnection: true, reconnectionAttempts: Infinity, lines 74-77).
TransportDrop ==
    /\ \E s \in Live : conns' = [conns EXCEPT ![s].status = "reconnecting"]
    /\ isConnected' = on_disconnect
    /\ UNCHANGED <<page, authState, adminAuth, socket, mirror, cleanup, wire, returned>>

\* A number above every count of attempts the model keeps.
Infinity == MaxAttempts + 1

\* reconnectionAttempts with a finite limit.
reconnectionAttempts_finite == MaxAttempts - 1

\* reconnectionAttempts: Infinity, line 77
reconnectionAttempts == Infinity

\* A reconnection attempt of socket s fails ('connect_error', lines 91-93,
\* is logged). socket.io counts the attempt and schedules the next one
\* (reconnectionDelay, reconnectionDelayMax, lines 75-76), or gives up when
\* the count has reached reconnectionAttempts. The count stops at
\* MaxAttempts.
TransportRetry ==
    /\ \E s \in SocketIds :
          /\ conns[s].status = "reconnecting"
          /\ LET n == IF conns[s].attempts < MaxAttempts THEN conns[s].attempts + 1
                      ELSE conns[s].attempts
             IN  conns' = [conns EXCEPT ![s].attempts = n,
                                        ![s].status = IF n >= reconnectionAttempts THEN "failed"
                                                      ELSE "reconnecting"]
    /\ UNCHANGED <<page, authState, adminAuth, socket, isConnected, mirror, cleanup, wire, returned>>

\* The server disconnects socket s: the 'disconnect' handler runs, and
\* socket.io does not reconnect a socket the server disconnected.
ServerDisconnect ==
    /\ \E s \in Live : conns' = [conns EXCEPT ![s].status = "kicked"]
    /\ isConnected' = on_disconnect
    /\ UNCHANGED <<page, authState, adminAuth, socket, mirror, cleanup, wire, returned>>

\* 'connect_error' and 'error', lines 91-97: logged.
TransportError ==
    /\ \E s \in SocketIds : conns[s].status \in {"opening", "connected", "reconnecting"}
    /\ UNCHANGED vars

\* The navigation that force_logout started commits: the document is
\* replaced, its sockets are closed by the browser and the provider is
\* constructed again.
PageUnload ==
    /\ page = "leaving"
    /\ page' = "mounting"
    /\ isAuthenticated' \in BOOLEAN
    /\ userRole' \in UserRoles
    /\ currentUser' \in Users
    /\ socket' = NoSocket
    /\ isConnected' = FALSE
    /\ sessions' = InitialMirror.sessions
    /\ settings' = InitialMirror.settings
    /\ bannedIPs' = InitialMirror.bannedIPs
    /\ callers' = InitialMirror.callers
    /\ aliases' = InitialMirror.aliases
    /\ cleanup' = NoSocket
    /\ conns' = [s \in SocketIds |->
                    IF conns[s].status = "none" THEN NoConn
                    ELSE [conns[s] EXCEPT !.status = "closed", !.sendBuffer = <<>>]]
    /\ returned' = NoCall
    /\ UNCHANGED <<adminAuth, wire>>

----------------------------------------------------------------------------
(* The event handlers, lines 99-206. Each takes the previous value of the  *)
(* collection it updates (the prev of its functional setState) and the     *)
(* event's payload, and gives the collection's next value.                 *)

Map(prev, F(_)) == [i \in DOMAIN prev |-> F(prev[i])]                    \* Array.prototype.map
Filter(prev, T(_)) == SelectSeq(prev, T)                                 \* Array.prototype.filter

\* lines 99-101
on_session_created(prev, session) == Append(prev, session)

\* on_session_updated appending the record when no record has its id.
on_session_updated_upsert(prev, updatedSession) ==
    IF \E i \in DOMAIN prev : prev[i].id = updatedSession.id
    THEN Map(prev, LAMBDA session : IF session.id = updatedSession.id THEN updatedSession ELSE session)
    ELSE Append(prev, updatedSession)

\* on_session_updated keeping the record's assignment when the payload has none.
on_session_updated_merge(prev, updatedSession) ==
    Map(prev, LAMBDA session :
                IF session.id = updatedSession.id
                THEN [updatedSession EXCEPT !.assignedTo =
                         IF @ = Null THEN session.assignedTo ELSE @]
                ELSE session)

\* lines 103-107
on_session_updated(prev, updatedSession) ==
    Map(prev, LAMBDA session : IF session.id = updatedSession.id THEN updatedSession ELSE session)

\* lines 109-112
on_session_removed(prev, sessionId) ==
    Filter(prev, LAMBDA session : session.id # sessionId)

\* on_session_remove_success with the test inverted.
on_session_remove_success_keep(prev, p) ==
    Filter(prev, LAMBDA session : session.id = p.sessionId)

\* lines 114-117
on_session_remove_success(prev, p) ==
    Filter(prev, LAMBDA session : session.id # p.sessionId)

\* lines 123-126
on_sessions_cleared(prev) == <<>>

\* lines 128-132
on_session_assigned(prev, p) ==
    Map(prev, LAMBDA session :
                IF session.id = p.sessionId THEN [session EXCEPT !.assignedTo = p.caller]
                ELSE session)

\* lines 134-138
on_session_unassigned(prev, p) ==
    Map(prev, LAMBDA session :
                IF session.id = p.sessionId THEN [session EXCEPT !.assignedTo = Null]
                ELSE session)

\* on_assignments_cleared clearing the assignment of every session.
on_assignments_cleared_all(prev, p) ==
    Map(prev, LAMBDA session : [session EXCEPT !.assignedTo = Null])

\* lines 145-150
on_assignments_cleared(prev, p) ==
    Map(prev, LAMBDA session :
                IF session.assignedTo = p.caller THEN [session EXCEPT !.assignedTo = Null]
                ELSE session)

\* lines 152-154
on_settings_updated(prev, newSettings) == newSettings

\* on_ip_banned as a toggle.
on_ip_banned_toggle(prev, ip) == IF ip \in prev THEN prev \ {ip} ELSE prev \cup {ip}

\* lines 156-158
on_ip_banned(prev, ip) == prev \cup {ip}

\* lines 160-166
on_ip_unbanned(prev, ip) == prev \ {ip}

\* data.f || fallback, for a payload field that may be missing
OrElse(data, f, fallback) == IF f \in DOMAIN data THEN data[f] ELSE fallback

\* new Set(array)
SetOf(array) == {array[i] : i \in DOMAIN array}

\* on_init keeping the previous value of a collection the payload lacks.
on_init_merge(m, data) ==
    [sessions |-> OrElse(data, "sessions", m.sessions),
     settings |-> OrElse(data, "settings", m.settings),
     bannedIPs |-> IF "bannedIPs" \in DOMAIN data THEN SetOf(data.bannedIPs) ELSE m.bannedIPs,
     callers |-> OrElse(data, "callers", m.callers),
     aliases |-> OrElse(data, "aliases", m.aliases)]

\* lines 168-174
on_init(m, data) ==
    [sessions |-> OrElse(data, "sessions", <<>>),
     settings |-> OrElse(data, "settings", EmptyObject),
     bannedIPs |-> SetOf(OrElse(data, "bannedIPs", <<>>)),
     callers |-> OrElse(data, "callers", <<>>),
     aliases |-> OrElse(data, "aliases", EmptyObject)]

\* lines 176-178
on_caller_added(prev, caller) == Append(prev, caller)

\* lines 180-184
on_caller_updated(prev, updatedCaller) ==
    Map(prev, LAMBDA c : IF c.id = updatedCaller.id THEN updatedCaller ELSE c)

\* lines 186-188
on_caller_deleted(prev, id) == Filter(prev, LAMBDA c : c.id # id)

\* lines 190-195
on_alias_updated(prev, p) ==
    [k \in DOMAIN prev \cup {p.sessionId} |-> IF k = p.sessionId THEN p.alias ELSE prev[k]]

\* The mirror as one value, and the handler table: the mirror after the
\* handler of event ev has run on mirror m.
Mirror ==
    [sessions |-> sessions, settings |-> settings, bannedIPs |-> bannedIPs,
     callers |-> callers, aliases |-> aliases]

Ev(n, p) == [name |-> n, payload |-> p]

Reduce(m, ev) ==
    CASE ev.name = "session_created" ->
           [m EXCEPT !.sessions = on_session_created(@, ev.payload)]
      [] ev.name = "session_updated" ->
           [m EXCEPT !.sessions = on_session_updated(@, ev.payload)]
      [] ev.name = "session_removed" ->
           [m EXCEPT !.sessions = on_session_removed(@, ev.payload)]
      [] ev.name = "session_remove_success" ->
           [m EXCEPT !.sessions = on_session_remove_success(@, ev.payload)]
      [] ev.name = "sessions_cleared" ->
           [m EXCEPT !.sessions = on_sessions_cleared(@)]
      [] ev.name = "session_assigned" ->
           [m EXCEPT !.sessions = on_session_assigned(@, ev.payload)]
      [] ev.name = "session_unassigned" ->
           [m EXCEPT !.sessions = on_session_unassigned(@, ev.payload)]
      [] ev.name = "assignments_cleared" ->
           [m EXCEPT !.sessions = on_assignments_cleared(@, ev.payload)]
      [] ev.name = "settings_updated" ->
           [m EXCEPT !.settings = on_settings_updated(@, ev.payload)]
      [] ev.name = "ip_banned" ->
           [m EXCEPT !.bannedIPs = on_ip_banned(@, ev.payload)]
      [] ev.name = "ip_unbanned" ->
           [m EXCEPT !.bannedIPs = on_ip_unbanned(@, ev.payload)]
      [] ev.name = "init" -> on_init(m, ev.payload)
      [] ev.name = "caller_added" ->
           [m EXCEPT !.callers = on_caller_added(@, ev.payload)]
      [] ev.name = "caller_updated" ->
           [m EXCEPT !.callers = on_caller_updated(@, ev.payload)]
      [] ev.name = "caller_deleted" ->
           [m EXCEPT !.callers = on_caller_deleted(@, ev.payload)]
      [] ev.name = "alias_updated" ->
           [m EXCEPT !.aliases = on_alias_updated(@, ev.payload)]
      \* session_remove_error (119-121), assignment_error (140-143),
      \* redirect_error (197-200): logged or alerted
      [] OTHER -> m

----------------------------------------------------------------------------
(* The payloads the server sends. A domain D names the sets the event      *)
(* actions draw their payloads from.                                       *)

sA == [id |-> "abc12345", ip |-> "1.2.3.4", assignedTo |-> Null]
sB == [id |-> "abc123456789", ip |-> "5.6.7.8", assignedTo |-> "c1"]
cA == [id |-> "c1", name |-> "Ann"]
InitFields == {"sessions", "settings", "bannedIPs", "callers", "aliases"}

\* The init payloads built from the complete payloads R with only the
\* fields of one of the sets in Fs present.
InitPayloads(R, Fs) == {[f \in F |-> r[f]] : r \in R, F \in Fs}

CoreInits ==
    InitPayloads(
        [sessions : {<<sA>>}, settings : {ServerSettings}, bannedIPs : {<<"1.2.3.4">>},
         callers : {<<cA>>}, aliases : {[k \in {"abc12345"} |-> "VIP"]}],
        {InitFields, {}})

FullInits ==
    InitPayloads(
        [sessions : {<<sB, sA>>}, settings : {ServerSettings},
         bannedIPs : {<<"5.6.7.8", "1.2.3.4", "5.6.7.8">>}, callers : {<<cA>>},
         aliases : {[k \in SessionIds |-> IF k = "abc12345" THEN "VIP" ELSE ""]}],
        {InitFields, {}} \cup {InitFields \ {f} : f \in InitFields})

Core ==
    [sessions |-> CoreSessionRecs, sessionIds |-> CoreSessionIds, callerIds |-> CoreCallerIds,
     callers |-> CoreCallerRecs, addrs |-> CoreAddrs, aliases |-> CoreAliases,
     settings |-> {ServerSettings}, inits |-> CoreInits]

Full ==
    [sessions |-> SessionRecs, sessionIds |-> SessionIds, callerIds |-> CallerIds,
     callers |-> CallerRecs, addrs |-> Addrs, aliases |-> Aliases,
     settings |-> SettingsValues, inits |-> FullInits]

----------------------------------------------------------------------------
(* Inbound events: socket.io calls the handler subscribed for the event on *)
(* a connected socket.                                                     *)

\* Receive with caller_deleted also clearing the assignments to the caller.
Receive_cascade(ev) ==
    /\ LET m == Reduce(Mirror, ev)
       IN  /\ sessions' = IF ev.name = "caller_deleted"
                           THEN on_assignments_cleared(m.sessions, [caller |-> ev.payload])
                           ELSE m.sessions
           /\ settings' = m.settings
           /\ bannedIPs' = m.bannedIPs
           /\ callers' = m.callers
           /\ aliases' = m.aliases
    /\ UNCHANGED <<page, authState, adminAuth, socket, isConnected, cleanup, conns, wire, returned>>

Receive(ev) ==
    /\ LET m == Reduce(Mirror, ev)
       IN  /\ sessions' = m.sessions
           /\ settings' = m.settings
           /\ bannedIPs' = m.bannedIPs
           /\ callers' = m.callers
           /\ aliases' = m.aliases
    /\ UNCHANGED <<page, authState, adminAuth, socket, isConnected, cleanup, conns, wire, returned>>

OnSessionCreated(D) ==
    /\ Live # {}
    /\ Len(sessions) < MaxSessions
    /\ \E session \in D.sessions : Receive(Ev("session_created", session))

OnSessionUpdated(D) ==
    /\ Live # {}
    /\ \E session \in D.sessions : Receive(Ev("session_updated", session))

OnSessionRemoved(D) ==
    /\ Live # {}
    /\ \E id \in D.sessionIds : Receive(Ev("session_removed", id))

OnSessionRemoveSuccess(D) ==
    /\ Live # {}
    /\ \E id \in D.sessionIds : Receive(Ev("session_remove_success", [sessionId |-> id]))

OnSessionRemoveError(D) ==
    /\ Live # {}
    /\ \E id \in D.sessionIds : Receive(Ev("session_remove_error", [sessionId |-> id, error |-> "not found"]))

OnSessionsCleared ==
    /\ Live # {}
    /\ Receive(Ev("sessions_cleared", <<>>))

OnSessionAssigned(D) ==
    /\ Live # {}
    /\ \E id \in D.sessionIds, c \in D.callerIds : Receive(Ev("session_assigned", [sessionId |-> id, caller |-> c]))

OnSessionUnassigned(D) ==
    /\ Live # {}
    /\ \E id \in D.sessionIds : Receive(Ev("session_unassigned", [sessionId |-> id]))

OnAssignmentError ==
    /\ Live # {}
    /\ Receive(Ev("assignment_error", [error |-> "taken"]))

OnAssignmentsCleared(D) ==
    /\ Live # {}
    /\ \E c \in D.callerIds, n \in 0..1 : Receive(Ev("assignments_cleared", [caller |-> c, count |-> n]))

OnSettingsUpdated(D) ==
    /\ Live # {}
    /\ \E s \in D.settings : Receive(Ev("settings_updated", s))

OnIpBanned(D) ==
    /\ Live # {}
    /\ \E ip \in D.addrs : Receive(Ev("ip_banned", ip))

OnIpUnbanned(D) ==
    /\ Live # {}
    /\ \E ip \in D.addrs : Receive(Ev("ip_unbanned", ip))

OnInit(D) ==
    /\ Live # {}
    /\ \E data \in D.inits : Receive(Ev("init", data))

OnCallerAdded(D) ==
    /\ Live # {}
    /\ Len(callers) < MaxCallers
    /\ \E c \in D.callers : Receive(Ev("caller_added", c))

OnCallerUpdated(D) ==
    /\ Live # {}
    /\ \E c \in D.callers : Receive(Ev("caller_updated", c))

OnCallerDeleted(D) ==
    /\ Live # {}
    /\ \E id \in D.callerIds : Receive(Ev("caller_deleted", id))

OnAliasUpdated(D) ==
    /\ Live # {}
    /\ \E id \in D.sessionIds, a \in D.aliases : Receive(Ev("alias_updated", [sessionId |-> id, alias |-> a]))

OnRedirectError(D) ==
    /\ Live # {}
    /\ \E id \in D.sessionIds : Receive(Ev("redirect_error", [error |-> "offline", sessionId |-> id]))

\* lines 202-206: the stored item is removed and location.href is assigned,
\* which starts a navigation; the document and its sockets stay as they are
\* until the navigation commits (PageUnload).
OnForceLogout ==
    /\ Live # {}
    /\ adminAuth' = NoItem
    /\ page' = "leaving"
    /\ UNCHANGED <<authState, socket, isConnected, mirror, cleanup, conns, wire, returned>>

SessionEvents(D) ==
    \/ OnSessionCreated(D)
    \/ OnSessionUpdated(D)
    \/ OnSessionRemoved(D)
    \/ OnSessionRemoveSuccess(D)
    \/ OnSessionRemoveError(D)
    \/ OnSessionsCleared
    \/ OnSessionAssigned(D)
    \/ OnSessionUnassigned(D)
    \/ OnAssignmentError
    \/ OnAssignmentsCleared(D)
    \/ OnRedirectError(D)

RosterEvents(D) ==
    \/ OnSettingsUpdated(D)
    \/ OnIpBanned(D)
    \/ OnIpUnbanned(D)
    \/ OnCallerAdded(D)
    \/ OnCallerUpdated(D)
    \/ OnCallerDeleted(D)
    \/ OnAliasUpdated(D)

Events(D) == OnInit(D) \/ SessionEvents(D) \/ RosterEvents(D)

Lifecycle ==
    \/ Mount
    \/ AuthChange
    \/ StoreWrite
    \/ TransportConnect
    \/ TransportDrop
    \/ ServerDisconnect
    \/ TransportError
    \/ OnForceLogout
    \/ PageUnload

NextLifecycle == Lifecycle \/ Events(Core)

SpecLifecycle == Init /\ [][NextLifecycle]_vars

----------------------------------------------------------------------------
(* The alias query, lines 233-235.                                         *)

\* String.prototype.slice(0, n)
Slice0(str, n) == IF Len(str) <= n THEN str ELSE SubSeq(str, 1, n)

\* getAlias falling back to the whole identifier.
getAlias_whole(al, sessionId) ==
    IF sessionId \in DOMAIN al /\ al[sessionId] # "" THEN al[sessionId] ELSE sessionId

\* aliases[sessionId] || sessionId.slice(0, 8): a missing entry reads as
\* undefined, and undefined and "" are falsy.
getAlias(al, sessionId) ==
    IF sessionId \in DOMAIN al /\ al[sessionId] # "" THEN al[sessionId]
    ELSE Slice0(sessionId, 8)

QueryIds == SessionIds \cup {"abc", "abc1234", "abc123456"}

GetAlias ==
    /\ page # "mounting"
    /\ \E sessionId \in QueryIds :
          returned' = [arg |-> sessionId, value |-> getAlias(aliases, sessionId)]
    /\ UNCHANGED <<page, authState, adminAuth, socket, isConnected, mirror, cleanup, conns, wire>>

----------------------------------------------------------------------------
(* The command dispatchers, lines 216-231 and 250-275.                     *)

\* socket?.emit(name, ...args): nothing when the handle is null; otherwise
\* socket.io writes the packet when the socket object is connected and
\* appends it to the object's sendBuffer when it is not.
Emit(name, args) ==
    IF socket = NoSocket
    THEN UNCHANGED <<conns, wire>>
    ELSE LET packet == [sock |-> socket, name |-> name, args |-> args]
         IN  /\ Emitted < MaxEmits
             /\ IF conns[socket].status = "connected"
                THEN /\ wire' = Append(wire, packet)
                     /\ UNCHANGED conns
                ELSE /\ conns' = [conns EXCEPT ![socket].sendBuffer = Append(@, packet)]
                     /\ UNCHANGED wire

\* What a dispatcher leaves alone besides what emit does.
Dispatch(name, args) ==
    /\ Emit(name, args)
    /\ UNCHANGED <<page, authState, adminAuth, socket, isConnected, mirror, cleanup, returned>>

\* lines 216-218
addCaller(D) ==
    /\ page # "mounting"
    /\ \E callerData \in D.callers : Dispatch("add_caller", <<callerData>>)

\* lines 220-222
updateCaller(D) ==
    /\ page # "mounting"
    /\ \E id \in D.callerIds, updatedData \in D.callers :
          Dispatch("update_caller", <<[id |-> id, data |-> updatedData]>>)

\* lines 224-226
deleteCaller(D) ==
    /\ page # "mounting"
    /\ \E id \in D.callerIds : Dispatch("delete_caller", <<id>>)

\* lines 229-231
setAlias(D) ==
    /\ page # "mounting"
    /\ \E sessionId \in D.sessionIds, alias \in D.aliases :
          Dispatch("set_alias", <<[sessionId |-> sessionId, alias |-> alias]>>)

\* lines 250-252
updateSettings(D) ==
    /\ page # "mounting"
    /\ \E newSettings \in D.settings : Dispatch("update_settings", <<newSettings>>)

\* lines 253-255
removeSession(D) ==
    /\ page # "mounting"
    /\ \E sessionId \in D.sessionIds : Dispatch("remove_session", <<[sessionId |-> sessionId]>>)

\* lines 256-258; rest holds the third argument when the caller passes one
redirectUser(D) ==
    /\ page # "mounting"
    /\ \E sessionId \in D.sessionIds, targetPage \in Pages,
          rest \in {<<>>, <<[code |-> "1234"]>>} :
          LET placeholders == IF rest = <<>> THEN EmptyObject ELSE rest[1]
          IN  Dispatch("redirect_user",
                       <<[sessionId |-> sessionId, page |-> targetPage,
                          placeholders |-> placeholders]>>)

\* banIP adding the address to the local set before the server answers.
banIP_optimistic(D) ==
    /\ page # "mounting"
    /\ \E ip \in D.addrs :
          /\ Emit("ban_ip", <<ip>>)
          /\ bannedIPs' = bannedIPs \cup {ip}
          /\ UNCHANGED <<page, authState, adminAuth, socket, isConnected, sessions, settings,
                         callers, aliases, cleanup, returned>>

\* lines 259-261
banIP(D) ==
    /\ page # "mounting"
    /\ \E ip \in D.addrs : Dispatch("ban_ip", <<ip>>)

\* lines 262-264
unbanIP(D) ==
    /\ page # "mounting"
    /\ \E ip \in D.addrs : Dispatch("unban_ip", <<ip>>)

\* lines 266-269
clearSessions ==
    /\ page # "mounting"
    /\ Dispatch("clear_sessions", <<>>)

\* assignSession naming the caller by the key the inbound event uses.
assignSession_caller(D) ==
    /\ page # "mounting"
    /\ \E sessionId \in D.sessionIds, caller \in D.callerIds :
          Dispatch("assign_session", <<[sessionId |-> sessionId, caller |-> caller]>>)

\* lines 270-272
assignSession(D) ==
    /\ page # "mounting"
    /\ \E sessionId \in D.sessionIds, caller \in D.callerIds :
          Dispatch("assign_session", <<[sessionId |-> sessionId, callerId |-> caller]>>)

\* lines 273-275
unassignSession(D) ==
    /\ page # "mounting"
    /\ \E sessionId \in D.sessionIds : Dispatch("unassign_session", <<[sessionId |-> sessionId]>>)

Commands(D) ==
    \/ addCaller(D)
    \/ updateCaller(D)
    \/ deleteCaller(D)
    \/ setAlias(D)
    \/ updateSettings(D)
    \/ removeSession(D)
    \/ redirectUser(D)
    \/ banIP(D)
    \/ unbanIP(D)
    \/ clearSessions
    \/ assignSession(D)
    \/ unassignSession(D)

----------------------------------------------------------------------------
(* Specifications. Spec is the whole provider. No lifecycle step or        *)
(* handler reads wire or a sendBuffer, and no dispatcher writes anything   *)
(* else, so the provider without its dispatchers (SpecLifecycle) has the   *)
(* same lifecycle and mirror states as Spec; no dispatcher reads the       *)
(* mirror, so SpecDispatch, which receives only init and force_logout, has *)
(* the same lifecycle and packets as Spec.                                 *)

Next == Lifecycle \/ Events(Core) \/ Commands(Core) \/ GetAlias

Spec == Init /\ [][Next]_vars

NextDispatch == Lifecycle \/ OnInit(Core) \/ Commands(Core)

SpecDispatch == Init /\ [][NextDispatch]_vars

(* SpecReconnect adds the failed reconnection attempts, which the other    *)
(* specifications leave out: with reconnectionAttempts: Infinity a failed  *)
(* attempt changes nothing but socket.io's count. socket.io retries a      *)
(* dropped connection on a timer, so a transport that keeps being able to  *)
(* accept the connection does accept it: weak fairness of TransportConnect.*)

NextReconnect == Lifecycle \/ TransportRetry \/ OnInit(Core)

SpecReconnect == Init /\ [][NextReconnect]_vars /\ WF_vars(TransportConnect)

(* The event handlers and the query are functions of the mirror alone.     *)
(* SpecSessions and SpecRoster start from the provider mounted with one    *)
(* connected socket and receive the events of the full domain: init and    *)
(* the events that write the sessions array in SpecSessions; init, the     *)
(* events that write the other four collections, and the alias query in    *)
(* SpecRoster.                                                             *)

Connected1 ==
    [s \in SocketIds |->
        IF s = 1 THEN [status |-> "connected",
                       auth |-> [token |-> "tok", role |-> "caller", username |-> "ann"],
                       sendBuffer |-> <<>>, attempts |-> 0]
        ELSE NoConn]

InitReducer ==
    /\ page = "live"
    /\ isAuthenticated = TRUE
    /\ userRole = "admin"
    /\ currentUser = "root"
    /\ adminAuth = [token |-> "tok", role |-> "caller", username |-> "ann"]
    /\ socket = 1
    /\ isConnected = TRUE
    /\ sessions = InitialMirror.sessions
    /\ settings = InitialMirror.settings
    /\ bannedIPs = InitialMirror.bannedIPs
    /\ callers = InitialMirror.callers
    /\ aliases = InitialMirror.aliases
    /\ cleanup = 1
    /\ conns = Connected1
    /\ wire = <<>>
    /\ returned = NoCall

NextSessions == OnInit(Full) \/ SessionEvents(Full)

SpecSessions == InitReducer /\ [][NextSessions]_vars

NextRoster == OnInit(Full) \/ RosterEvents(Full) \/ GetAlias

SpecRoster == InitReducer /\ [][NextRoster]_vars

(* SpecMirror receives every event on one mirror: init of the full domain  *)
(* and the incremental events of the core domain.                          *)

NextMirror == OnInit(Full) \/ SessionEvents(Core) \/ RosterEvents(Core)

SpecMirror == InitReducer /\ [][NextMirror]_vars

----------------------------------------------------------------------------
(* Properties of the connection lifecycle (SpecLifecycle, SpecDispatch).   *)

\* C1: in every reachable state at most one connection the provider opened
\* is not yet closed.
C1_AtMostOneActive == Cardinality(Active) <= 1

\* A second connection is open after the first was closed.
C1_Witness == conns[1].status = "closed" /\ conns[2].status = "connected"

\* A step in which a dispatcher runs.
CommandStep == Commands(Core)

\* C2: a command issued while ConnectionState is disconnected produces no
\* outbound packet, neither written at once nor queued for later delivery.
C2_NoPacketWhileDisconnected ==
    [][(~isConnected /\ CommandStep) => (wire' = wire /\ conns' = conns)]_vars

\* C3: the step that handles force_logout leaves the connection closed and
\* the stored credential absent, and from then on no step before the
\* document is replaced changes a mirrored collection.
C3_ForceLogoutTearsDown ==
    [][/\ (page # "leaving" /\ page' = "leaving") => (adminAuth' = NoItem /\ Active' = {})
       /\ (page = "leaving" /\ page' = "leaving") => mirror' = mirror]_vars

\* The last run of the effect ended in refusal: it returned no cleanup.
Refused == page # "mounting" /\ cleanup = NoSocket

\* C4: while the last run of the effect is one that ended in refusal, no
\* connection is open, ConnectionState is disconnected and the dispatchers
\* hold no handle.
C4_RefusalLeavesNothing == Refused => (Active = {} /\ ~isConnected /\ socket = NoSocket)

\* A step in which the transport of a connected socket drops, or the server
\* disconnects it: the socket's 'disconnect' handler is called.
DisconnectNotified ==
    \E s \in SocketIds : conns[s].status = "connected" /\ conns'[s].status \in {"reconnecting", "kicked"}

\* A step in which a socket connects or reconnects.
ConnectNotified ==
    \E s \in SocketIds : conns[s].status \in {"opening", "reconnecting"} /\ conns'[s].status = "connected"

\* C6: a disconnect notification sets ConnectionState to disconnected and
\* changes nothing else of the provider's state; the mirror is also
\* unchanged by the connect notification of a later reconnect.
C6_DisconnectKeepsMirror ==
    [][/\ DisconnectNotified => (~isConnected' /\ mirror' = mirror /\ socket' = socket)
       /\ ConnectNotified => mirror' = mirror]_vars

\* A socket is waiting to reconnect while the mirror still holds what the
\* server sent before the drop.
C6_Witness ==
    /\ \E s \in SocketIds : conns[s].status = "reconnecting"
    /\ ~isConnected
    /\ sessions # <<>>
    /\ bannedIPs # {}

----------------------------------------------------------------------------
(* Properties of the event handlers (SpecSessions, SpecRoster).            *)

\* What the init payload data holds for each collection, an absent field
\* standing for the empty collection.
InitResult(data) ==
    [sessions |-> IF "sessions" \in DOMAIN data THEN data.sessions ELSE <<>>,
     settings |-> IF "settings" \in DOMAIN data THEN data.settings ELSE EmptyObject,
     bannedIPs |-> IF "bannedIPs" \in DOMAIN data
                   THEN {a \in Addrs : \E i \in DOMAIN data.bannedIPs : data.bannedIPs[i] = a}
                   ELSE {},
     callers |-> IF "callers" \in DOMAIN data THEN data.callers ELSE <<>>,
     aliases |-> IF "aliases" \in DOMAIN data THEN data.aliases ELSE EmptyObject]

\* C5: whatever the mirror held, after an init event the five collections
\* are the payload's, and a collection the payload lacks is empty.
C5_InitReplacesAll ==
    [][\A data \in FullInits : Receive(Ev("init", data)) => Mirror' = InitResult(data)]_vars

\* An init whose payload lacked settings replaced the mirror: settings is
\* the empty record and the other four collections are the payload's.
C5_Witness ==
    /\ settings = EmptyObject
    /\ sessions = <<sB, sA>>
    /\ bannedIPs = Addrs
    /\ callers = <<cA>>
    /\ DOMAIN aliases = SessionIds

Banned(a) == Ev("ip_banned", a)
Unbanned(a) == Ev("ip_unbanned", a)

\* C7: in every reachable mirror, a second copy of ip_banned(a) or of
\* ip_unbanned(a) changes nothing the first copy left, so k copies leave
\* what one copy leaves; ip_unbanned of an address that is not banned
\* changes nothing.
C7_BanUnbanIdempotent ==
    \A a \in Addrs :
        LET banned == Reduce(Mirror, Banned(a))
            unbanned == Reduce(Mirror, Unbanned(a))
        IN  /\ Reduce(banned, Banned(a)) = banned
            /\ Reduce(Reduce(banned, Banned(a)), Banned(a)) = banned
            /\ Reduce(unbanned, Unbanned(a)) = unbanned
            /\ Reduce(Reduce(unbanned, Unbanned(a)), Unbanned(a)) = unbanned
            /\ banned.bannedIPs = bannedIPs \cup {a}
            /\ unbanned.bannedIPs = bannedIPs \ {a}
            /\ a \notin bannedIPs => unbanned = Mirror

\* One address is banned and another is not.
C7_Witness == "1.2.3.4" \in bannedIPs /\ "5.6.7.8" \notin bannedIPs /\ callers # <<>>

Removed(id) == Ev("session_removed", id)
RemoveSuccess(id) == Ev("session_remove_success", [sessionId |-> id])

\* The identifiers of the records of an array.
IdsOf(array) == {array[i].id : i \in DOMAIN array}

\* The events of the full domain that do not name session identifier id:
\* every event of another session or of no session, and an init whose
\* sessions do not hold id.
NotNaming(id) ==
    {Ev("session_created", r) : r \in {x \in SessionRecs : x.id # id}}
    \cup {Ev("session_updated", r) : r \in {x \in SessionRecs : x.id # id}}
    \cup {Removed(j) : j \in SessionIds \ {id}}
    \cup {RemoveSuccess(j) : j \in SessionIds \ {id}}
    \cup {Ev("session_unassigned", [sessionId |-> j]) : j \in SessionIds \ {id}}
    \cup {Ev("session_assigned", [sessionId |-> j, caller |-> c]) : j \in SessionIds \ {id}, c \in CallerIds}
    \cup {Ev("assignments_cleared", [caller |-> c, count |-> 1]) : c \in CallerIds}
    \cup {Ev("sessions_cleared", <<>>)}
    \cup {Ev("init", d) : d \in {x \in FullInits : id \notin IdsOf(OrElse(x, "sessions", <<>>))}}
    \cup {Banned(a) : a \in Addrs}
    \cup {Ev("caller_deleted", c) : c \in CallerIds}
    \cup {Ev("alias_updated", [sessionId |-> j, alias |-> a]) : j \in SessionIds, a \in Aliases}

\* C8: in every reachable mirror, session_removed(id) and
\* session_remove_success({sessionId: id}) give the same mirror, which is
\* the mirror without the records of that identifier and is the mirror
\* itself when there is none; after one, the other or the same again
\* changes nothing; and either commutes with every event that does not
\* name the identifier.
C8_RemovalsAgree ==
    \A id \in SessionIds :
        LET one == Reduce(Mirror, Removed(id))
            two == Reduce(Mirror, RemoveSuccess(id))
        IN  /\ one = two
            /\ one = [Mirror EXCEPT !.sessions = SelectSeq(sessions, LAMBDA r : r.id # id)]
            /\ Reduce(one, RemoveSuccess(id)) = one
            /\ Reduce(two, Removed(id)) = one
            /\ Reduce(one, Removed(id)) = one
            /\ Reduce(two, RemoveSuccess(id)) = one
            /\ id \notin IdsOf(sessions) => one = Mirror
            /\ \A ev \in NotNaming(id) :
                  /\ Reduce(Reduce(Mirror, ev), Removed(id)) = Reduce(one, ev)
                  /\ Reduce(Reduce(Mirror, ev), RemoveSuccess(id)) = Reduce(two, ev)

\* The mirror holds two records of one identifier and none of the other.
C8_Witness ==
    /\ Len(sessions) = 2
    /\ sessions[1].id = "abc12345"
    /\ sessions[2].id = "abc12345"
    /\ sessions[1] # sessions[2]

\* The events of the full domain, other than session_created and
\* caller_added, that name a session or caller identifier the mirror m does
\* not hold; for alias_updated, an identifier that neither a session record
\* nor an entry of the alias map has.
UnknownSessionEvents(m) ==
    LET unknown == SessionIds \ IdsOf(m.sessions)
    IN  {Ev("session_updated", r) : r \in {x \in SessionRecs : x.id \in unknown}}
        \cup {Ev("session_assigned", [sessionId |-> j, caller |-> c]) : j \in unknown, c \in CallerIds}
        \cup {Ev("session_unassigned", [sessionId |-> j]) : j \in unknown}
        \cup {Removed(j) : j \in unknown}
        \cup {RemoveSuccess(j) : j \in unknown}

UnknownCallerEvents(m) ==
    LET unknown == CallerIds \ IdsOf(m.callers)
    IN  {Ev("caller_updated", r) : r \in {x \in CallerRecs : x.id \in unknown}}
        \cup {Ev("caller_deleted", c) : c \in unknown}

UnknownAliasEvents(m) ==
    {Ev("alias_updated", [sessionId |-> j, alias |-> a]) :
        j \in SessionIds \ (IdsOf(m.sessions) \cup DOMAIN m.aliases), a \in Aliases}

\* C9 as claimed: every event of the three sets leaves the mirror as it is.
C9_UnknownIdDropped ==
    \A ev \in UnknownSessionEvents(Mirror) \cup UnknownCallerEvents(Mirror)
              \cup UnknownAliasEvents(Mirror) :
        Reduce(Mirror, ev) = Mirror

\* C9 as amended: the session and caller events that name an identifier the
\* mirror does not hold leave the mirror as it is; alias_updated sets the
\* alias map's entry for its identifier, also when no session record and no
\* entry had it, and changes nothing else.
C9_UnknownIdDroppedButAlias ==
    /\ \A ev \in UnknownSessionEvents(Mirror) \cup UnknownCallerEvents(Mirror) :
          Reduce(Mirror, ev) = Mirror
    /\ \A j \in SessionIds, a \in Aliases :
          LET m == Reduce(Mirror, Ev("alias_updated", [sessionId |-> j, alias |-> a]))
          IN  /\ DOMAIN m.aliases = DOMAIN aliases \cup {j}
              /\ m.aliases[j] = a
              /\ \A k \in DOMAIN aliases \ {j} : m.aliases[k] = aliases[k]
              /\ [m EXCEPT !.aliases = aliases] = Mirror

\* The mirror holds a session and a caller, and another session identifier
\* and another caller identifier are unknown to it.
C9_Witness ==
    /\ sessions # <<>>
    /\ callers # <<>>
    /\ SessionIds \ IdsOf(sessions) # {}
    /\ CallerIds \ IdsOf(callers) # {}

\* C10 as claimed: a call of getAlias returns the alias map's entry for its
\* argument when there is one, whatever it is, and the first 8 characters
\* of the argument when there is none.
C10_AliasOrPrefix ==
    [][(returned' # returned /\ returned' # NoCall) =>
          LET sessionId == returned'.arg
          IN  returned'.value = IF sessionId \in DOMAIN aliases THEN aliases[sessionId]
                                ELSE Slice0(sessionId, 8)]_vars

\* C10 as amended: a call of getAlias returns the alias map's entry for its
\* argument when there is one and it is not the empty string, and the first
\* 8 characters of the argument (all of it when it is shorter) otherwise.
C10_NonEmptyAliasOrPrefix ==
    [][(returned' # returned /\ returned' # NoCall) =>
          LET sessionId == returned'.arg
          IN  returned'.value = IF sessionId \in DOMAIN aliases /\ aliases[sessionId] # ""
                                THEN aliases[sessionId]
                                ELSE IF Len(sessionId) < 8 THEN sessionId
                                ELSE SubSeq(sessionId, 1, 8)]_vars

\* getAlias returned the prefix of an identifier longer than 8 characters
\* whose entry in the alias map is the empty string.
C10_Witness ==
    /\ returned = [arg |-> "abc123456789", value |-> "abc12345"]
    /\ "abc123456789" \in DOMAIN aliases
    /\ aliases["abc123456789"] = ""

----------------------------------------------------------------------------
(* Properties of the dispatchers and of closed connections (SpecDispatch). *)

\* C11: a step in which a dispatcher runs, with or without a connection,
\* changes none of the five mirrored collections and not ConnectionState;
\* and a step of the living document that changes a mirrored collection is
\* the handling of an inbound event on a connected socket.
C11_CommandsKeepMirror ==
    [][/\ CommandStep => (mirror' = mirror /\ isConnected' = isConnected)
       /\ (mirror' # mirror /\ page' # "mounting") =>
             (Live # {} /\ \E data \in CoreInits : Mirror' = Reduce(Mirror, Ev("init", data)))]_vars

\* ban_ip was written to the transport and the address is not in the local
\* set of banned addresses.
C11_Witness ==
    /\ Len(wire) = 1
    /\ wire[1].name = "ban_ip"
    /\ wire[1].args = <<"1.2.3.4">>
    /\ bannedIPs = {}
    /\ isConnected

\* C12: once a connection is closed it stays closed, the dispatchers do not
\* hold it and no step hands it a packet; and while no connection is open
\* no step changes a mirrored collection of the living document or sets
\* ConnectionState to connected.
C12_ClosedIsDiscarded ==
    [][\A s \in SocketIds :
          conns[s].status = "closed" =>
              /\ conns'[s].status = "closed"
              /\ socket # s
              /\ Len(conns'[s].sendBuffer) <= Len(conns[s].sendBuffer)
              /\ Active = {} => /\ mirror' = mirror \/ page' = "mounting"
                                /\ isConnected' => isConnected]_vars

----------------------------------------------------------------------------
(* Reconnection (SpecReconnect).                                           *)

----------------------------------------------------------------------------
(* Properties of the whole handler table (SpecMirror, SpecSessions).       *)

\* The collection the event catalogue names for an incremental event;
\* "none" for the notification events.
Target(name) ==
    CASE name \in {"session_created", "session_updated", "session_removed",
                   "session_remove_success", "sessions_cleared", "session_assigned",
                   "session_unassigned", "assignments_cleared"} -> "sessions"
      [] name = "settings_updated" -> "settings"
      [] name \in {"ip_banned", "ip_unbanned"} -> "bannedIPs"
      [] name \in {"caller_added", "caller_updated", "caller_deleted"} -> "callers"
      [] name = "alias_updated" -> "aliases"
      [] OTHER -> "none"

\* Every incremental event of the full domain.
IncrementalEvents ==
    {Ev("session_created", r) : r \in SessionRecs}
    \cup {Ev("session_updated", r) : r \in SessionRecs}
    \cup {Removed(j) : j \in SessionIds}
    \cup {RemoveSuccess(j) : j \in SessionIds}
    \cup {Ev("session_remove_error", [sessionId |-> j, error |-> "not found"]) : j \in SessionIds}
    \cup {Ev("sessions_cleared", <<>>)}
    \cup {Ev("session_assigned", [sessionId |-> j, caller |-> c]) : j \in SessionIds, c \in CallerIds}
    \cup {Ev("session_unassigned", [sessionId |-> j]) : j \in SessionIds}
    \cup {Ev("assignment_error", [error |-> "taken"])}
    \cup {Ev("assignments_cleared", [caller |-> c, count |-> n]) : c \in CallerIds, n \in 0..1}
    \cup {Ev("settings_updated", x) : x \in SettingsValues}
    \cup {Banned(a) : a \in Addrs}
    \cup {Unbanned(a) : a \in Addrs}
    \cup {Ev("caller_added", r) : r \in CallerRecs}
    \cup {Ev("caller_updated", r) : r \in CallerRecs}
    \cup {Ev("caller_deleted", c) : c \in CallerIds}
    \cup {Ev("alias_updated", [sessionId |-> j, alias |-> a]) : j \in SessionIds, a \in Aliases}
    \cup {Ev("redirect_error", [error |-> "offline", sessionId |-> j]) : j \in SessionIds}

\* C14: a step that handles an incremental event leaves unchanged every
\* collection but the one the catalogue names for the event, and a
\* notification event leaves all five unchanged.
C14_OneCollectionPerEvent ==
    [][\A ev \in IncrementalEvents :
          Receive(ev) => \A f \in InitFields \ {Target(ev.name)} : Mirror'[f] = Mirror[f]]_vars

\* The caller was deleted and a session is still assigned to it, while the
\* other collections hold what init sent.
C14_Witness ==
    /\ callers = <<>>
    /\ \E i \in DOMAIN sessions : sessions[i].assignedTo = "c1"
    /\ DOMAIN aliases = SessionIds
    /\ bannedIPs = Addrs
    /\ settings = ServerSettings

\* C15: in every reachable state no two records of the sessions array have
\* the same identifier.
C15_UniqueSessionIds ==
    \A i, j \in DOMAIN sessions : sessions[i].id = sessions[j].id => i = j

\* The ordering rule for one record rec and one event: an assignment event
\* that names the record's identifier overlays the assignment field alone,
\* session_updated with the record's identifier replaces the record by its
\* payload, and any other event of the three leaves the record.
Overlay(rec, ev) ==
    CASE ev.name = "session_assigned" /\ ev.payload.sessionId = rec.id ->
           [id |-> rec.id, ip |-> rec.ip, assignedTo |-> ev.payload.caller]
      [] ev.name = "session_unassigned" /\ ev.payload.sessionId = rec.id ->
           [id |-> rec.id, ip |-> rec.ip, assignedTo |-> Null]
      [] ev.name = "session_updated" /\ ev.payload.id = rec.id -> ev.payload
      [] OTHER -> rec

\* The assignment and update events of the full domain.
RecordEvents ==
    {Ev("session_assigned", [sessionId |-> j, caller |-> c]) : j \in SessionIds, c \in CallerIds}
    \cup {Ev("session_unassigned", [sessionId |-> j]) : j \in SessionIds}
    \cup {Ev("session_updated", r) : r \in SessionRecs}

\* C16: a step that handles session_assigned, session_unassigned or
\* session_updated applies the ordering rule to every record in place, so
\* the records after a sequence of these events are the left fold of the
\* rule over the records init or session_created seeded; and right after a
\* session_assigned, a session_updated for the same identifier leaves the
\* record with the assignment its payload carries, not the earlier one.
C16_OverlayInArrivalOrder ==
    [][\A ev \in RecordEvents :
          Receive(ev) =>
              /\ Len(sessions') = Len(sessions)
              /\ \A i \in DOMAIN sessions : sessions'[i] = Overlay(sessions[i], ev)
              /\ ev.name = "session_assigned" =>
                    \A r \in SessionRecs :
                        LET after == Reduce(Mirror', Ev("session_updated", r)).sessions
                        IN  \A i \in DOMAIN after :
                                after[i].id = r.id => after[i] = r]_vars

\* Two records, in arrival order, that differ from the records init sends
\* in the address or the assignment.
C16_Witness ==
    /\ Len(sessions) = 2
    /\ sessions[1] = [id |-> "abc123456789", ip |-> "1.2.3.4", assignedTo |-> "c2"]
    /\ sessions[2] = [id |-> "abc12345", ip |-> "1.2.3.4", assignedTo |-> "c1"]

\* C17: a step that handles assignments_cleared({caller, count}) keeps the
\* length and the order of the sessions array, sets the assignment to none
\* on exactly the records assigned to caller and keeps every other field
\* and record, so that afterwards no record is assigned to caller; the
\* other value of count gives the same array.
C17_ClearsCallersAssignments ==
    [][\A c \in CallerIds, n \in 0..1 :
          Receive(Ev("assignments_cleared", [caller |-> c, count |-> n])) =>
              /\ Len(sessions') = Len(sessions)
              /\ \A i \in DOMAIN sessions :
                    /\ sessions'[i].id = sessions[i].id
                    /\ sessions'[i].ip = sessions[i].ip
                    /\ sessions'[i].assignedTo =
                          IF sessions[i].assignedTo = c THEN Null ELSE sessions[i].assignedTo
              /\ \A i \in DOMAIN sessions' : sessions'[i].assignedTo # c
              /\ Reduce(Mirror, Ev("assignments_cleared", [caller |-> c, count |-> 1 - n])) = Mirror']_vars

\* Of two sessions one has no assignment and the other is still assigned
\* to the second caller.
C17_Witness ==
    /\ Len(sessions) = 2
    /\ sessions[1] = [id |-> "abc123456789", ip |-> "5.6.7.8", assignedTo |-> Null]
    /\ sessions[2] = [id |-> "abc12345", ip |-> "1.2.3.4", assignedTo |-> "c2"]

----------------------------------------------------------------------------
(* The outbound catalogue (SpecDispatch).                                  *)

\* The packet a step handed to emit: the last one written, or the last one
\* of the handle's sendBuffer when nothing was written.
Sent ==
    IF wire' # wire THEN wire'[Len(wire')]
    ELSE conns'[socket].sendBuffer[Len(conns'[socket].sendBuffer)]

\* A step hands emit exactly one packet, of the given name and with one of
\* the given argument lists, and writes it at once when the handle's socket
\* is connected.
Handed(name, argLists) ==
    /\ Len(wire') + Buffered(conns', SocketIds) = Emitted + 1
    /\ Sent.sock = socket
    /\ Sent.name = name
    /\ Sent.args \in argLists
    /\ conns[socket].status = "connected" => (wire' = Append(wire, Sent) /\ conns' = conns)

\* C18: with a handle, a step in which a dispatcher is called hands emit
\* exactly one packet, whose name and payload are the catalogue's for that
\* dispatcher; redirectUser called without placeholders sends an empty
\* record for them.
C18_CatalogueOfCommands ==
    [][socket # NoSocket =>
          /\ addCaller(Core) => Handed("add_caller", {<<d>> : d \in CoreCallerRecs})
          /\ updateCaller(Core) =>
                Handed("update_caller",
                       {<<[id |-> i, data |-> d]>> : i \in CoreCallerIds, d \in CoreCallerRecs})
          /\ deleteCaller(Core) => Handed("delete_caller", {<<i>> : i \in CoreCallerIds})
          /\ setAlias(Core) =>
                Handed("set_alias",
                       {<<[sessionId |-> s, alias |-> a]>> : s \in CoreSessionIds, a \in CoreAliases})
          /\ updateSettings(Core) => Handed("update_settings", {<<ServerSettings>>})
          /\ removeSession(Core) =>
                Handed("remove_session", {<<[sessionId |-> s]>> : s \in CoreSessionIds})
          /\ redirectUser(Core) =>
                Handed("redirect_user",
                       {<<[sessionId |-> s, page |-> p, placeholders |-> ph]>> :
                           s \in CoreSessionIds, p \in Pages, ph \in {EmptyObject, [code |-> "1234"]}})
          /\ banIP(Core) => Handed("ban_ip", {<<a>> : a \in CoreAddrs})
          /\ unbanIP(Core) => Handed("unban_ip", {<<a>> : a \in CoreAddrs})
          /\ clearSessions => Handed("clear_sessions", {<<>>})
          /\ assignSession(Core) =>
                Handed("assign_session",
                       {<<[sessionId |-> s, callerId |-> c]>> : s \in CoreSessionIds, c \in CoreCallerIds})
          /\ unassignSession(Core) =>
                Handed("unassign_session", {<<[sessionId |-> s]>> : s \in CoreSessionIds})]_vars

\* redirect_user was written to the transport of the connected socket with
\* an empty record of placeholders.
C18_Witness ==
    /\ Len(wire) = 1
    /\ wire[1].sock = socket
    /\ wire[1].name = "redirect_user"
    /\ wire[1].args = <<[sessionId |-> "abc12345", page |-> "otp.html", placeholders |-> EmptyObject]>>

----------------------------------------------------------------------------
(* Properties of the auth context's changes (SpecLifecycle).               *)

\* C19: a step of the living document in which the auth context changes
\* (logout, login, another role or user), with the teardown and rebuild of
\* the connection it causes, leaves the five mirrored collections as they
\* were.
C19_AuthChangeKeepsMirror ==
    [][(authState' # authState /\ page' = page) => mirror' = mirror]_vars

\* After a logout the first connection is closed and the handle is null,
\* and the mirror still holds what the server sent over that connection.
C19_Witness ==
    /\ ~isAuthenticated
    /\ socket = NoSocket
    /\ conns[1].status = "closed"
    /\ conns[2].status = "none"
    /\ sessions = <<sA>>
    /\ callers = <<cA>>
    /\ bannedIPs = {"1.2.3.4"}
    /\ settings = ServerSettings

\* C20: whenever ConnectionState is connected, the auth context is
\* authenticated and the dispatchers' handle is a socket, the one that is
\* connected (whose connect notification set the flag), never a closed one.
C20_ConnectedMeansLiveHandle ==
    isConnected =>
        /\ isAuthenticated
        /\ socket # NoSocket
        /\ conns[socket].status = "connected"
        /\ Live = {socket}

\* ConnectionState is connected over the second socket, which the handle
\* names, after the first was closed by a change of the auth context.
C20_Witness ==
    /\ isConnected
    /\ socket = 2
    /\ cleanup = 2
    /\ conns[1].status = "closed"
    /\ userRole = "caller"
    /\ sessions # <<>>

====
